---- MODULE Spec2Model ----
(***************************************************************************)
(* A model of the draughts search engine of src/engine.cpp: move          *)
(* generation with forced maximum capture, move application, and the      *)
(* iterative-deepening driver around the alpha-beta search.               *)
(*                                                                         *)
(* A board is a function 0..63 -> piece code, square r*8+c as in the       *)
(* source.  A Move is a record [steps, score]; the source's count is       *)
(* Len(steps), and the slots of steps[12] beyond count, which the source   *)
(* never reads, are not represented.  Sequences are 1-based, so the        *)
(* source's moves[0] is moves[1] here.                                     *)
(***************************************************************************)
EXTENDS Integers, Sequences, FiniteSets, TLC

\* ------------------------------------------------------------ constants
EMPTY == 0
BLACK_MAN == 1
WHITE_MAN == 2
BLACK_KING == 3
WHITE_KING == 4
GHOST == 7
\* Step steps[12] of Move: the chain cap tested by find_captures_recursive
MAX_STEPS == 12
\* Move moves[128] of MoveList
MOVELIST_CAP == 128
\* the board is 8 x 8
SIZE == 8

Squares == 0..(SIZE * SIZE - 1)
Sq(r, c) == r * SIZE + c
RowOf(i) == i \div SIZE
ColOf(i) == i % SIZE
Abs(x) == IF x < 0 THEN -x ELSE x

drs == <<-1, -1, 1, 1>>
dcs == <<-1, 1, -1, 1>>

is_valid(r, c) == r >= 0 /\ r < SIZE /\ c >= 0 /\ c < SIZE

is_white_side(player) == player = WHITE_MAN \/ player = WHITE_KING

MkStep(r1, c1, r2, c2) == [r1 |-> r1, c1 |-> c1, r2 |-> r2, c2 |-> c2]
MkMove(steps) == [steps |-> steps, score |-> 0]
\* Move m; m.count = 0; m.score = 0
EmptyMove == MkMove(<<>>)
Count(m) == Len(m.steps)

\* TRUE.  An operator's arguments are evaluated on demand; a loop of the source
\* that threads a list through its iterations evaluates the list so far before
\* it goes on, so that the statements run in the source's order.
Done(v) == v = v

\* MoveList::push_back: a move offered to a full list is dropped
push_back(moves, m) == IF Len(moves) < MOVELIST_CAP THEN Append(moves, m) ELSE moves

\* push_back of each move of ms in turn
push_all(moves, ms) ==
  LET all == moves \o ms
  IN IF Len(all) <= MOVELIST_CAP THEN all ELSE SubSeq(all, 1, MOVELIST_CAP)

SetMin(S) == CHOOSE n \in S : \A k \in S : n <= k

\* ------------------------------------------------- capture enumeration
\* the scratch board of one capture step: source emptied, the jumped
\* square marked GHOST, the piece put on the landing square
JumpBoard_NoGhost(board, r, c, nr, nc, jr, jc, piece) ==
  [board EXCEPT ![Sq(r, c)] = EMPTY, ![Sq(nr, nc)] = EMPTY, ![Sq(jr, jc)] = piece]

JumpBoard(board, r, c, nr, nc, jr, jc, piece) ==
  [board EXCEPT ![Sq(r, c)] = EMPTY, ![Sq(nr, nc)] = GHOST, ![Sq(jr, jc)] = piece]

AddStep(m, r, c, jr, jc) == [m EXCEPT !.steps = Append(@, MkStep(r, c, jr, jc))]

\* A man in direction i: the jump over the adjacent square, if that holds an
\* enemy and the square behind it is on the board and empty.
\* A jump is [nr, nc, jr, jc]: the jumped square and the landing square.
ManJumps(board, r, c, i, is_white) ==
  LET enemy_man == IF is_white THEN BLACK_MAN ELSE WHITE_MAN
      enemy_king == IF is_white THEN BLACK_KING ELSE WHITE_KING
      nr == r + drs[i]
      nc == c + dcs[i]
      jr == r + 2 * drs[i]
      jc == c + 2 * dcs[i]
  IN IF is_valid(jr, jc)
        /\ (board[Sq(nr, nc)] = enemy_man \/ board[Sq(nr, nc)] = enemy_king)
        /\ board[Sq(jr, jc)] = EMPTY
     THEN <<[nr |-> nr, nc |-> nc, jr |-> jr, jc |-> jc]>>
     ELSE <<>>

\* A king in direction i.  The outer while(true) runs dist upward and stops at
\* the first square that is off the board, holds a piece of the side or a
\* GHOST, or holds an enemy; behind an enemy the inner while(true) runs
\* land_dist upward over the empty squares, one jump for each, nearest first.
KingJumps(board, r, c, i, is_white) ==
  LET my_man == IF is_white THEN WHITE_MAN ELSE BLACK_MAN
      my_king == IF is_white THEN WHITE_KING ELSE BLACK_KING
      enemy_man == IF is_white THEN BLACK_MAN ELSE WHITE_MAN
      enemy_king == IF is_white THEN BLACK_KING ELSE WHITE_KING
      Stops(p) == p = my_man \/ p = my_king \/ p = GHOST \/ p = enemy_man \/ p = enemy_king
      dist == SetMin({d \in 1..SIZE :
                        ~is_valid(r + d * drs[i], c + d * dcs[i])
                        \/ Stops(board[Sq(r + d * drs[i], c + d * dcs[i])])})
      nr == r + dist * drs[i]
      nc == c + dist * dcs[i]
      lands == SetMin({l \in 1..SIZE :
                         ~is_valid(nr + l * drs[i], nc + l * dcs[i])
                         \/ board[Sq(nr + l * drs[i], nc + l * dcs[i])] # EMPTY}) - 1
  IN IF is_valid(nr, nc) /\ (board[Sq(nr, nc)] = enemy_man \/ board[Sq(nr, nc)] = enemy_king)
     THEN [land_dist \in 1..lands |->
             [nr |-> nr, nc |-> nc,
              jr |-> nr + land_dist * drs[i], jc |-> nc + land_dist * dcs[i]]]
     ELSE <<>>

\* the jumps of for (i = 0; i < 4; ++i), in the order the loops reach them
Jumps(board, r, c, piece) ==
  LET is_white == piece = WHITE_MAN \/ piece = WHITE_KING
      is_king == piece = WHITE_KING \/ piece = BLACK_KING
      dir(i) == IF ~is_king THEN ManJumps(board, r, c, i, is_white)
                ELSE KingJumps(board, r, c, i, is_white)
  IN dir(1) \o dir(2) \o dir(3) \o dir(4)

RECURSIVE find_captures_recursive(_, _, _, _, _, _)
RECURSIVE Continue(_, _, _, _, _, _, _, _, _)

\* the recursive calls for the jumps js[lo..hi], in order, each handed the list
\* the one before it left.  (The range is halved rather than walked, which
\* keeps the evaluation shallow; the order of the calls is the source's.)
Continue(board, r, c, piece, current_move, js, lo, hi, moves) ==
  IF ~Done(moves) THEN moves
  ELSE IF lo = hi
  THEN find_captures_recursive(
         JumpBoard(board, r, c, js[lo].nr, js[lo].nc, js[lo].jr, js[lo].jc, piece),
         js[lo].jr, js[lo].jc, piece,
         AddStep(current_move, r, c, js[lo].jr, js[lo].jc), moves)
  ELSE Continue(board, r, c, piece, current_move, js, (lo + hi) \div 2 + 1, hi,
                Continue(board, r, c, piece, current_move, js, lo, (lo + hi) \div 2, moves))

find_captures_recursive(board, r, c, piece, current_move, moves) ==
  IF Count(current_move) >= MAX_STEPS THEN push_back(moves, current_move)
  ELSE LET js == Jumps(board, r, c, piece)
           found_continuation == Len(js) > 0
       IN IF found_continuation
          THEN Continue(board, r, c, piece, current_move, js, 1, Len(js), moves)
          ELSE IF Count(current_move) > 0 THEN push_back(moves, current_move)
          ELSE moves

\* ------------------------------------------------------ generate_moves
RECURSIVE CaptureScan(_, _, _, _, _)
\* for (i = 0; i < 64; i++) over the squares lo..hi, in square order: the
\* captures of every piece of the side are appended to moves.  (The range is
\* halved rather than walked, which keeps the evaluation shallow; the order of
\* the squares is the source's.)
CaptureScan(board, is_white, lo, hi, moves) ==
  IF ~Done(moves) THEN moves
  ELSE IF lo = hi
  THEN LET my_man == IF is_white THEN WHITE_MAN ELSE BLACK_MAN
           my_king == IF is_white THEN WHITE_KING ELSE BLACK_KING
       IN IF board[lo] = my_man \/ board[lo] = my_king
          THEN find_captures_recursive(board, lo \div SIZE, lo % SIZE, board[lo],
                                       EmptyMove, moves)
          ELSE moves
  ELSE CaptureScan(board, is_white, (lo + hi) \div 2 + 1, hi,
                   CaptureScan(board, is_white, lo, (lo + hi) \div 2, moves))

\* max_capture_count: the largest count in the list
MaxCount(moves) ==
  LET counts == {Count(moves[i]) : i \in 1..Len(moves)}
  IN CHOOSE n \in counts : \A k \in counts : k <= n

\* the write_idx compaction: the moves of count n, in their order
KeepCount(moves, n) ==
  LET Keep(m) == Count(m) = n
  IN SelectSeq(moves, Keep)

\* while(true) over dist in direction k: one quiet move per empty square of
\* the ray, nearest first
KingSlides(board, r, c, k) ==
  LET reach == SetMin({d \in 1..SIZE :
                         ~is_valid(r + d * drs[k], c + d * dcs[k])
                         \/ board[Sq(r + d * drs[k], c + d * dcs[k])] # EMPTY}) - 1
  IN [dist \in 1..reach |-> MkMove(<<MkStep(r, c, r + dist * drs[k], c + dist * dcs[k])>>)]

\* for (k = 0; k < 4; k++)
KingDirs(board, r, c, moves) ==
  push_all(moves, KingSlides(board, r, c, 1) \o KingSlides(board, r, c, 2)
                  \o KingSlides(board, r, c, 3) \o KingSlides(board, r, c, 4))

\* the two forward steps of a man, left (dc = -1) then right (dc = 1)
ManSteps(board, r, c, is_white, moves) ==
  LET dr == IF is_white THEN -1 ELSE 1
      one(ms, dc) == IF is_valid(r + dr, c + dc) /\ board[Sq(r + dr, c + dc)] = EMPTY
                     THEN push_back(ms, MkMove(<<MkStep(r, c, r + dr, c + dc)>>))
                     ELSE ms
  IN one(one(moves, -1), 1)

RECURSIVE QuietScan(_, _, _, _, _)
\* for r, for c: row-major, which is square order, over the squares lo..hi
QuietScan(board, is_white, lo, hi, moves) ==
  IF ~Done(moves) THEN moves
  ELSE IF lo = hi
  THEN LET my_man == IF is_white THEN WHITE_MAN ELSE BLACK_MAN
           my_king == IF is_white THEN WHITE_KING ELSE BLACK_KING
           p == board[lo]
       IN IF p # my_man /\ p # my_king THEN moves
          ELSE IF p = my_man
               THEN ManSteps(board, RowOf(lo), ColOf(lo), is_white, moves)
               ELSE KingDirs(board, RowOf(lo), ColOf(lo), moves)
  ELSE QuietScan(board, is_white, (lo + hi) \div 2 + 1, hi,
                 QuietScan(board, is_white, lo, (lo + hi) \div 2, moves))

\* generate_moves once the capture scan has left caps in the list: the
\* captures of the largest count, or, with no capture, the quiet moves
after_captures(board, is_white, caps) ==
  IF Len(caps) > 0
  THEN KeepCount(caps, MaxCount(caps))
  ELSE QuietScan(board, is_white, 0, SIZE * SIZE - 1, <<>>)

generate_moves(board, player) ==
  after_captures(board, is_white_side(player),
                 CaptureScan(board, is_white_side(player), 0, SIZE * SIZE - 1, <<>>))

\* ---------------------------------------------------------- apply_move
RECURSIVE WalkStep(_, _, _, _, _, _)
\* while (curr_r != er): every non-empty square of the walk is cleared
WalkStep(board, curr_r, curr_c, er, dr, dc) ==
  IF ~Done(board) \/ curr_r = er THEN board
  ELSE WalkStep(IF board[Sq(curr_r, curr_c)] # EMPTY
                THEN [board EXCEPT ![Sq(curr_r, curr_c)] = EMPTY]
                ELSE board,
                curr_r + dr, curr_c + dc, er, dr, dc)

RECURSIVE WalkSteps(_, _, _)
WalkSteps(board, m, i) ==
  IF ~Done(board) \/ i > Count(m) THEN board
  ELSE LET s == m.steps[i]
           dr == IF s.r2 > s.r1 THEN 1 ELSE -1
           dc == IF s.c2 > s.c1 THEN 1 ELSE -1
       IN WalkSteps(WalkStep(board, s.r1 + dr, s.c1 + dc, s.r2, dr, dc), m, i + 1)

\* the out-parameter captured_piece_type is written and never read by a caller
apply_move(board, m, player) ==
  LET r1 == m.steps[1].r1
      c1 == m.steps[1].c1
      r2 == m.steps[Count(m)].r2
      c2 == m.steps[Count(m)].c2
      piece == board[Sq(r1, c1)]
      b1 == [[board EXCEPT ![Sq(r1, c1)] = EMPTY] EXCEPT ![Sq(r2, c2)] = piece]
      b2 == IF Abs(r1 - r2) >= 2 \/ Count(m) > 1 THEN WalkSteps(b1, m, 1) ELSE b1
      b3 == IF piece = WHITE_MAN /\ r2 = 0 THEN [b2 EXCEPT ![Sq(r2, c2)] = WHITE_KING] ELSE b2
  IN IF piece = BLACK_MAN /\ r2 = SIZE - 1 THEN [b3 EXCEPT ![Sq(r2, c2)] = BLACK_KING] ELSE b3

is_capture_move_AnyRow(m) ==
  IF Count(m) = 0 THEN FALSE ELSE Abs(m.steps[1].r1 - m.steps[1].r2) >= 1

is_capture_move(m) ==
  IF Count(m) = 0 THEN FALSE ELSE Abs(m.steps[1].r1 - m.steps[1].r2) > 1

is_promotion_move(m, piece) ==
  IF Count(m) # 1 THEN FALSE
  ELSE (piece = WHITE_MAN /\ m.steps[1].r2 = 0) \/ (piece = BLACK_MAN /\ m.steps[1].r2 = SIZE - 1)

\* bool capture_forced = (moves.count > 0 && is_capture_move(moves[0]))
capture_forced(moves) == Len(moves) > 0 /\ is_capture_move(moves[1])

\* ---------------------------------------------------- search constants
\* const int TT_SIZE = 1 << 24
TT_SIZE == 16777216
INF == 1000000
MATE == 900000
MAX_PLY == 64
\* enum TTFlag { TT_EXACT, TT_ALPHA, TT_BETA }
TT_EXACT == 0
TT_ALPHA == 1
TT_BETA == 2

\* Move::operator==: the step count, the first step's source and the last
\* step's destination; the squares in between are not compared
Move_eq(a, b) ==
  IF Count(a) # Count(b) THEN FALSE
  ELSE IF Count(a) = 0 THEN TRUE
  ELSE /\ a.steps[1].r1 = b.steps[1].r1 /\ a.steps[1].c1 = b.steps[1].c1
       /\ a.steps[Count(a)].r2 = b.steps[Count(a)].r2
       /\ a.steps[Count(a)].c2 = b.steps[Count(a)].c2

\* ------------------------------------------------------ Zobrist hashing
\* An unsigned 64-bit key is kept as <<bits 63..44, bits 43..24, bits 23..0>>.
RECURSIVE Xor(_, _)
Xor(a, b) ==
  IF a = 0 THEN b
  ELSE IF b = 0 THEN a
  ELSE ((a + b) % 2) + 2 * Xor(a \div 2, b \div 2)

KeyXor(k1, k2) == <<Xor(k1[1], k2[1]), Xor(k1[2], k2[2]), Xor(k1[3], k2[3])>>
ZeroKey == <<0, 0, 0>>

\* init_zobrist: the first draws of std::mt19937_64 rng(12345), in the order
\* zobrist_table[i][j], i = 0..63, j = 0..7, then zobrist_black_move.  Row i+1
\* below holds zobrist_table[i][1..4], the entries of the four piece codes.
zobrist_table ==
  << << <<419894, 542752, 16728185>>, <<722870, 839919, 5572861>>, <<586925, 299599, 12436770>>, <<602355, 880854, 14354852>> >>,
     << <<217215, 251936, 8599321>>, <<4123, 278381, 1564302>>, <<13662, 674003, 8863848>>, <<440844, 905079, 13627841>> >>,
     << <<28027, 339581, 10427044>>, <<113185, 845285, 3329971>>, <<384496, 22875, 2258990>>, <<4075, 596311, 5845751>> >>,
     << <<843155, 263717, 7052980>>, <<627710, 17092, 9169354>>, <<3615, 41862, 9821030>>, <<512038, 389053, 8726292>> >>,
     << <<134230, 607379, 15318215>>, <<912415, 290908, 3494422>>, <<809022, 910820, 12104672>>, <<734189, 659207, 6904566>> >>,
     << <<126782, 590452, 5111728>>, <<121673, 336734, 1966895>>, <<445257, 502370, 13913449>>, <<180329, 855846, 7713524>> >>,
     << <<683773, 504428, 3733406>>, <<556247, 417222, 5205716>>, <<377648, 970623, 9632612>>, <<920917, 495327, 3275455>> >>,
     << <<729920, 412810, 11603278>>, <<77826, 908303, 10922475>>, <<427276, 844106, 2115129>>, <<206319, 480634, 11875882>> >>,
     << <<514547, 216987, 9124671>>, <<984674, 96555, 4937295>>, <<431083, 142371, 2216880>>, <<839381, 238808, 6877839>> >>,
     << <<1031946, 776418, 9979397>>, <<147382, 240091, 10298711>>, <<461223, 84099, 4171436>>, <<939042, 361942, 16696053>> >>,
     << <<763284, 317561, 3154082>>, <<527231, 70182, 3753482>>, <<51521, 136043, 2166598>>, <<386317, 463159, 6215739>> >>,
     << <<160289, 924228, 16531555>>, <<927017, 7379, 9526937>>, <<133073, 233376, 6892615>>, <<253032, 513592, 2988534>> >>,
     << <<937297, 196991, 14593598>>, <<898184, 221045, 9217297>>, <<98999, 8960, 1368986>>, <<1025989, 400135, 5694019>> >>,
     << <<8311, 4811, 10357136>>, <<563523, 431973, 16220993>>, <<248112, 606265, 8055798>>, <<634616, 930865, 3761917>> >>,
     << <<363438, 669388, 16418296>>, <<1022936, 558296, 668540>>, <<670089, 569362, 8461104>>, <<906671, 576123, 4159498>> >>,
     << <<540168, 1026129, 13998806>>, <<460415, 643296, 14341259>>, <<600680, 882186, 9538340>>, <<422857, 409177, 10118469>> >>,
     << <<84747, 991964, 6885600>>, <<852272, 987876, 790583>>, <<631214, 739814, 4751738>>, <<370867, 43823, 11794760>> >>,
     << <<908858, 336943, 7942294>>, <<974961, 729028, 5267203>>, <<913331, 684496, 15246076>>, <<1024932, 916183, 10085356>> >>,
     << <<733097, 949629, 1564861>>, <<812772, 750578, 11859851>>, <<388839, 540130, 8330498>>, <<371137, 1012307, 9638568>> >>,
     << <<773208, 261812, 127871>>, <<796091, 107600, 8151346>>, <<577586, 445975, 14693450>>, <<509504, 301563, 2764346>> >>,
     << <<126332, 22827, 10200753>>, <<804875, 844078, 8545363>>, <<463388, 530435, 15108182>>, <<451861, 111801, 11230480>> >>,
     << <<813090, 724254, 3203222>>, <<787633, 720151, 12803320>>, <<37411, 671767, 3869828>>, <<970488, 560429, 9322026>> >>,
     << <<17473, 945668, 10855435>>, <<657864, 619639, 7416108>>, <<835694, 841162, 12732308>>, <<194473, 167805, 4767985>> >>,
     << <<388955, 372983, 7819302>>, <<865777, 388629, 2207515>>, <<484424, 217534, 9911531>>, <<783983, 602755, 9673499>> >>,
     << <<514231, 941819, 7996154>>, <<702934, 588364, 2568379>>, <<446070, 932142, 10758357>>, <<998649, 616845, 9789768>> >>,
     << <<409298, 92117, 5038971>>, <<545625, 119053, 8177153>>, <<941083, 287390, 6502404>>, <<362654, 293408, 16408053>> >>,
     << <<347162, 685244, 7194993>>, <<87302, 894662, 7712147>>, <<74845, 677749, 8265602>>, <<42984, 724984, 13615444>> >>,
     << <<549574, 690567, 12747956>>, <<957706, 866051, 109116>>, <<361172, 15393, 9894493>>, <<869607, 23064, 1195745>> >>,
     << <<478117, 784770, 10080216>>, <<197084, 192111, 14552089>>, <<950269, 778627, 13286096>>, <<728822, 854114, 1552029>> >>,
     << <<724722, 261356, 13319378>>, <<636700, 639825, 13152757>>, <<71137, 48999, 5704765>>, <<378556, 934287, 3932468>> >>,
     << <<771287, 68877, 9658755>>, <<992167, 917163, 9313279>>, <<824557, 10818, 11764642>>, <<621656, 484337, 11250947>> >>,
     << <<782775, 504642, 10168116>>, <<173501, 19744, 4200606>>, <<217472, 891292, 11484383>>, <<1007410, 129985, 493264>> >>,
     << <<102914, 862033, 7487231>>, <<205137, 812160, 10163836>>, <<886647, 1008203, 2131791>>, <<435905, 44919, 15309274>> >>,
     << <<838492, 988269, 15340406>>, <<616354, 648741, 12889955>>, <<963015, 796911, 1600381>>, <<945072, 202244, 14191964>> >>,
     << <<321082, 701192, 6359207>>, <<201940, 422631, 2121205>>, <<591405, 860268, 86223>>, <<575429, 302231, 10742765>> >>,
     << <<540507, 589646, 1148014>>, <<294409, 995039, 9194797>>, <<749171, 754730, 6918944>>, <<414696, 855413, 3057569>> >>,
     << <<200907, 989333, 2889833>>, <<142442, 673813, 11022382>>, <<883479, 79490, 9190918>>, <<595440, 914673, 759361>> >>,
     << <<186870, 493617, 7286592>>, <<454755, 499270, 15935785>>, <<897840, 604801, 8297964>>, <<332396, 342258, 9871470>> >>,
     << <<951110, 831464, 6543857>>, <<795124, 836777, 12327741>>, <<304906, 498907, 4561953>>, <<81189, 181342, 12340367>> >>,
     << <<423448, 632140, 13387619>>, <<548876, 615056, 1335662>>, <<877179, 557187, 2460621>>, <<356970, 634494, 383295>> >>,
     << <<1011117, 613015, 1571515>>, <<230300, 271711, 2105050>>, <<242351, 314787, 8972750>>, <<393600, 718889, 16186514>> >>,
     << <<465918, 714365, 14242811>>, <<836677, 775255, 16298184>>, <<473754, 581057, 14490469>>, <<455599, 369832, 9681354>> >>,
     << <<882382, 985425, 16557391>>, <<425832, 632873, 5402898>>, <<339679, 926451, 7873980>>, <<420634, 164634, 16382993>> >>,
     << <<819254, 360655, 2669790>>, <<541317, 18107, 13328398>>, <<817190, 150649, 9914917>>, <<612519, 77950, 5912235>> >>,
     << <<189374, 83987, 15708251>>, <<827670, 548872, 9898546>>, <<713422, 981773, 1959094>>, <<250119, 228485, 8805590>> >>,
     << <<592965, 704926, 9333849>>, <<926382, 960437, 826453>>, <<232772, 425097, 16548409>>, <<1009014, 232572, 16401156>> >>,
     << <<183311, 220518, 10225893>>, <<654810, 985944, 14011579>>, <<672006, 750314, 4679513>>, <<1035428, 81307, 3299160>> >>,
     << <<96605, 235474, 309953>>, <<857183, 792546, 16555019>>, <<194923, 855619, 7843110>>, <<107680, 743098, 13137990>> >>,
     << <<274906, 358013, 3344462>>, <<460023, 419083, 7549799>>, <<97853, 740467, 8232030>>, <<500995, 184398, 14950912>> >>,
     << <<181284, 960378, 11237534>>, <<917329, 353504, 6868566>>, <<203182, 679648, 9054109>>, <<315542, 101010, 153868>> >>,
     << <<130346, 448368, 13466805>>, <<409839, 406308, 12662192>>, <<569565, 706303, 13137526>>, <<585089, 646940, 12125606>> >>,
     << <<928318, 398375, 9502021>>, <<428877, 465202, 7125030>>, <<703737, 303099, 3930727>>, <<435910, 666369, 16671889>> >>,
     << <<565986, 754640, 15530123>>, <<759793, 677064, 4270160>>, <<305547, 406086, 10459820>>, <<332838, 46751, 6413091>> >>,
     << <<532184, 450286, 6266892>>, <<585873, 353351, 12735730>>, <<995428, 12227, 14802714>>, <<150091, 861387, 16253255>> >>,
     << <<289381, 567805, 13587497>>, <<625939, 143115, 13914870>>, <<314471, 524584, 6877948>>, <<783137, 43740, 157064>> >>,
     << <<651405, 836812, 12847725>>, <<991959, 435290, 11593701>>, <<953748, 919541, 3766857>>, <<422975, 1024952, 14268661>> >>,
     << <<607412, 118753, 1153723>>, <<6063, 553397, 400676>>, <<186210, 241512, 4296412>>, <<99258, 603982, 12114689>> >>,
     << <<1025033, 665919, 1048601>>, <<183168, 561484, 11179281>>, <<744747, 927953, 3394004>>, <<78275, 897049, 16711418>> >>,
     << <<293395, 656692, 5613785>>, <<167115, 274592, 5889096>>, <<923047, 172364, 2806391>>, <<157681, 118262, 13440010>> >>,
     << <<252231, 998744, 1203373>>, <<391346, 439422, 6654103>>, <<525494, 785111, 8058370>>, <<22883, 43958, 5811299>> >>,
     << <<497675, 518175, 1198211>>, <<599592, 624971, 12764818>>, <<237025, 53214, 391216>>, <<93171, 85264, 4939407>> >>,
     << <<203216, 664540, 7897802>>, <<925838, 229018, 10605983>>, <<85565, 356931, 14400213>>, <<157965, 859804, 5607498>> >>,
     << <<735865, 602560, 9546558>>, <<414971, 601688, 10918943>>, <<400620, 249673, 34076>>, <<543303, 1045030, 5760225>> >>,
     << <<503876, 437556, 16739060>>, <<432457, 148367, 6563793>>, <<1003168, 24609, 15155396>>, <<886809, 660742, 3316653>> >> >>

zobrist_black_move == <<1041134, 826712, 8674624>>

\* h ^= zobrist_table[i][board[i]] over the squares of S
RECURSIVE HashSquares(_, _)
HashSquares(board, S) ==
  IF S = {} THEN ZeroKey
  ELSE LET i == SetMin(S)
       IN KeyXor(zobrist_table[i + 1][board[i]], HashSquares(board, S \ {i}))

compute_hash(board, player) ==
  LET h == HashSquares(board, {i \in Squares : board[i] # EMPTY /\ board[i] # GHOST})
  IN IF player = BLACK_MAN \/ player = BLACK_KING THEN KeyXor(h, zobrist_black_move) ELSE h

\* ------------------------------------------------- transposition table
\* transposition_table[idx] for the slots written so far; every other slot is
\* as init_memory's memset left it
ZeroEntry ==
  [key |-> ZeroKey, score |-> 0, depth |-> 0, flag |-> 0, best_move |-> EmptyMove]

\* int idx = key % TT_SIZE: TT_SIZE is 2^24, the low limb is the key mod 2^24
TTIndex(key) == key[3] % TT_SIZE

TTEntryAt(tt, idx) == IF idx \in DOMAIN tt THEN tt[idx] ELSE ZeroEntry

tt_save_Always(tt, key, score, depth, flag, best_move) ==
  [x \in DOMAIN tt \cup {TTIndex(key)} |->
     IF x = TTIndex(key)
     THEN [key |-> key, score |-> score, depth |-> depth, flag |-> flag,
           best_move |-> best_move]
     ELSE tt[x]]

tt_save(tt, key, score, depth, flag, best_move) ==
  LET idx == TTIndex(key)
      entry == [key |-> key, score |-> score, depth |-> depth, flag |-> flag,
                best_move |-> best_move]
  IN IF TTEntryAt(tt, idx).key # key \/ depth >= TTEntryAt(tt, idx).depth
     THEN [x \in DOMAIN tt \cup {idx} |-> IF x = idx THEN entry ELSE tt[x]]
     ELSE tt

\* tt_probe: [hit, score, tt_move]; score is meaningful only on a hit, tt_move
\* is the zeroed move unless the slot holds the key
tt_probe(tt, key, depth, alpha, beta) ==
  LET e == TTEntryAt(tt, TTIndex(key))
      s0 == e.score
      s1 == IF s0 > MATE - 1000 THEN s0 - MAX_PLY ELSE s0
      s == IF s1 < -MATE + 1000 THEN s1 + MAX_PLY ELSE s1
  IN IF e.key # key THEN [hit |-> FALSE, score |-> 0, tt_move |-> EmptyMove]
     ELSE IF e.depth < depth THEN [hit |-> FALSE, score |-> 0, tt_move |-> e.best_move]
     ELSE IF e.flag = TT_EXACT THEN [hit |-> TRUE, score |-> s, tt_move |-> e.best_move]
     ELSE IF e.flag = TT_ALPHA /\ s <= alpha
          THEN [hit |-> TRUE, score |-> alpha, tt_move |-> e.best_move]
     ELSE IF e.flag = TT_BETA /\ s >= beta
          THEN [hit |-> TRUE, score |-> beta, tt_move |-> e.best_move]
     ELSE [hit |-> FALSE, score |-> 0, tt_move |-> e.best_move]

\* ------------------------------------------------------ static evaluation
VAL_PAWN == 1000
VAL_KING == 8000
RUNAWAY_BONUS == 600
MOBILITY_WEIGHT == 6
DANGER_NEAR_KING == 1000

\* PST_WHITE[i] and PST_BLACK[i], constant along a row but for the files
PST_ROW ==
  << <<0, 0, 0, 0, 0, 0, 0, 0>>,
     <<1500, 1500, 1500, 1500, 1500, 1500, 1500, 1500>>,
     <<800, 800, 800, 800, 800, 800, 800, 800>>,
     <<200, 200, 250, 250, 250, 250, 200, 200>>,
     <<100, 100, 150, 150, 150, 150, 100, 100>>,
     <<50, 50, 80, 80, 80, 80, 50, 50>>,
     <<20, 20, 20, 20, 20, 20, 20, 20>>,
     <<10, 10, 10, 10, 10, 10, 10, 10>> >>
PST_WHITE(i) == PST_ROW[RowOf(i) + 1][ColOf(i) + 1]
PST_BLACK(i) == PST_ROW[SIZE - RowOf(i)][ColOf(i) + 1]

\* the sum of f[i] over the squares of S
RECURSIVE SumOver(_, _)
SumOver(f, S) ==
  IF S = {} THEN 0
  ELSE LET i == SetMin(S) IN f[i] + SumOver(f, S \ {i})

evaluate(board, current_player) ==
  LET wm == {i \in Squares : board[i] = WHITE_MAN}
      bm == {i \in Squares : board[i] = BLACK_MAN}
      w_men == Cardinality(wm)
      b_men == Cardinality(bm)
      w_kings == Cardinality({i \in Squares : board[i] = WHITE_KING})
      b_kings == Cardinality({i \in Squares : board[i] = BLACK_KING})
      \* one white man's material, square value, runaway bonus
      w_man == [i \in Squares |->
                  VAL_PAWN + PST_WHITE(i) + (IF RowOf(i) <= 2 THEN RUNAWAY_BONUS ELSE 0)]
      b_man == [i \in Squares |->
                  VAL_PAWN + PST_BLACK(i) + (IF RowOf(i) >= 5 THEN RUNAWAY_BONUS ELSE 0)]
      \* and its free forward steps
      w_free == [i \in Squares |->
                   IF RowOf(i) > 0
                   THEN (IF ColOf(i) > 0 /\ board[i - 9] = EMPTY THEN 1 ELSE 0)
                        + (IF ColOf(i) < 7 /\ board[i - 7] = EMPTY THEN 1 ELSE 0)
                   ELSE 0]
      b_free == [i \in Squares |->
                   IF RowOf(i) < 7
                   THEN (IF ColOf(i) > 0 /\ board[i + 7] = EMPTY THEN 1 ELSE 0)
                        + (IF ColOf(i) < 7 /\ board[i + 9] = EMPTY THEN 1 ELSE 0)
                   ELSE 0]
      w_moves == SumOver(w_free, wm) + 5 * w_kings
      b_moves == SumOver(b_free, bm) + 5 * b_kings
      \* a black man on row 6 with no piece on either square in front of it
      b_unsafe == {i \in 48..55 :
                     /\ board[i] = BLACK_MAN
                     /\ ~(is_valid(7, ColOf(i) - 1) /\ board[i + 7] # EMPTY)
                     /\ ~(is_valid(7, ColOf(i) + 1) /\ board[i + 9] # EMPTY)}
      w_unsafe == {i \in 8..15 :
                     /\ board[i] = WHITE_MAN
                     /\ ~(is_valid(0, ColOf(i) - 1) /\ board[i - 9] # EMPTY)
                     /\ ~(is_valid(0, ColOf(i) + 1) /\ board[i - 7] # EMPTY)}
      w_total == w_men + w_kings
      b_total == b_men + b_kings
      w_score == SumOver(w_man, wm) + VAL_KING * w_kings
                 - DANGER_NEAR_KING * Cardinality(b_unsafe)
                 + w_moves * MOBILITY_WEIGHT
                 + (IF w_total > b_total THEN 2500 \div (b_total + 1) ELSE 0)
      b_score == SumOver(b_man, bm) + VAL_KING * b_kings
                 - DANGER_NEAR_KING * Cardinality(w_unsafe)
                 + b_moves * MOBILITY_WEIGHT
                 + (IF b_total > w_total THEN 2500 \div (w_total + 1) ELSE 0)
      score == w_score - b_score
  IN IF is_white_side(current_player) THEN score ELSE -score

\* ---------------------------------------------------------- move ordering
\* killer_moves[ply] and history_table[side][from][to] for the entries written
\* so far; every other entry is zero. killer_moves has the rows 0..MAX_PLY-1:
\* KillersAt is used for those rows only, and an access to any other row is
\* undefined (killer_row, below)
KillersAt(killers, ply) ==
  IF ply \in DOMAIN killers THEN killers[ply] ELSE <<EmptyMove, EmptyMove>>
HistoryAt(history, side, from, to) ==
  IF <<side, from, to>> \in DOMAIN history THEN history[<<side, from, to>>] ELSE 0

score_move_ordering(m, tt_best, ply, killers, history) ==
  LET last == m.steps[Count(m)]
  IN IF Move_eq(m, tt_best) THEN 2000000
     ELSE IF Count(m) > 0 /\ Abs(m.steps[1].r1 - last.r2) > 2
          THEN 1000000 + Count(m) * 1000
     ELSE IF last.r2 = 0 \/ last.r2 = 7 THEN 950000
     ELSE IF Move_eq(m, KillersAt(killers, ply)[1]) THEN 900000
     ELSE IF Move_eq(m, KillersAt(killers, ply)[2]) THEN 800000
     ELSE HistoryAt(history, 0, Sq(m.steps[1].r1, m.steps[1].c1), Sq(last.r2, last.c2))

\* score_move_ordering gets as far as killer_moves[ply] for the move m
reads_killers(m, tt_best) ==
  LET last == m.steps[Count(m)]
  IN /\ ~Move_eq(m, tt_best)
     /\ ~(Count(m) > 0 /\ Abs(m.steps[1].r1 - last.r2) > 2)
     /\ ~(last.r2 = 0 \/ last.r2 = 7)

\* pick_move(moves, start_index, tt_best, ply) reads killer_moves[ply]
pick_reads_killers(moves, start_index, tt_best) ==
  \E k \in start_index..Len(moves) : reads_killers(moves[k], tt_best)

\* killer_moves[ply] is a row of Move killer_moves[MAX_PLY][2]
killer_row(ply) == ply >= 0 /\ ply < MAX_PLY

\* pick_move, start_index counted from 1: every move from start_index on gets
\* its ordering score, and the first of those with the highest score is swapped
\* into start_index
pick_move(moves, start_index, tt_best, ply, killers, history) ==
  LET n == Len(moves)
      scored == [k \in 1..n |->
                   IF k >= start_index
                   THEN [moves[k] EXCEPT
                           !.score = score_move_ordering(moves[k], tt_best, ply, killers, history)]
                   ELSE moves[k]]
      best_idx == IF start_index > n THEN -1
                  ELSE CHOOSE k \in start_index..n :
                         \A j \in start_index..n :
                           \/ scored[j].score < scored[k].score
                           \/ (scored[j].score = scored[k].score /\ j >= k)
  IN IF best_idx = -1 THEN scored
     ELSE [k \in 1..n |->
             IF k = start_index THEN scored[best_idx]
             ELSE IF k = best_idx THEN scored[start_index]
             ELSE scored[k]]

\* ------------------------------------------------- the search: its frames
\* the frame of one alpha_beta call: its parameters, the statement it has
\* reached (pc) and its locals
\*   "entry"  called, nothing executed yet
\*   "loop"   at the head of the move loop, moves[i] next
\*   "first"  waiting for the call of line 532
\*   "null"   waiting for the null-window call of line 537
\*   "full"   waiting for the re-search of line 539
\*   "undefined"  the call has indexed killer_moves outside its rows: what the
\*                program does from here on is undefined, and no step of it
\*                is modelled
NewFrame(board, depth, alpha, beta, player, ply) ==
  [pc |-> "entry", board |-> board, depth |-> depth, alpha |-> alpha, beta |-> beta,
   player |-> player, ply |-> ply, moves |-> <<>>, i |-> 0, best_score |-> -INF,
   best_move_local |-> EmptyMove, flag |-> TT_ALPHA, h |-> ZeroKey,
   tt_move |-> EmptyMove, capture_forced |-> FALSE]

enemy_of(player) == IF is_white_side(player) THEN BLACK_MAN ELSE WHITE_MAN

\* board[m.steps[0].r1 * 8 + m.steps[0].c1]
PieceOf(board, m) == board[Sq(m.steps[1].r1, m.steps[1].c1)]

\* (nodes_visited & 2047) == 0
clock_sampled_Always(n) == TRUE

clock_sampled(n) == n % 2048 = 0

\* if (stop_search) return 0, after the calls on a move have returned
unwinding_Never(stop) == FALSE

unwinding(stop) == stop

\* the depth <= 0 block of alpha_beta: TRUE when the node is evaluated statically
is_leaf_NoFloor(board, depth, moves) ==
  LET is_noisy ==
        \/ capture_forced(moves)
        \/ \E k \in 1..Len(moves) : is_promotion_move(moves[k], PieceOf(board, moves[k]))
  IN depth <= 0 /\ ~is_noisy

is_leaf(board, depth, moves) ==
  LET is_noisy ==
        \/ capture_forced(moves)
        \/ \E k \in 1..Len(moves) : is_promotion_move(moves[k], PieceOf(board, moves[k]))
  IN depth <= 0 /\ (~is_noisy \/ depth < -12)

\* alpha_beta from its first statement after the stop test to the head of the
\* move loop: the value it returns, or the frame with its locals set up
\* with moves the generated moves, h the position's key and probe the
\* outcome of tt_probe
alpha_beta_node(f, moves, h, probe) ==
  IF Len(moves) = 0 THEN [returns |-> TRUE, value |-> -MATE + f.ply, frame |-> f]
  ELSE IF is_leaf(f.board, f.depth, moves)
       THEN [returns |-> TRUE, value |-> evaluate(f.board, f.player), frame |-> f]
  ELSE IF probe.hit /\ f.ply > 0
       THEN [returns |-> TRUE, value |-> probe.score, frame |-> f]
  ELSE [returns |-> FALSE, value |-> 0,
        frame |-> [f EXCEPT !.pc = "loop", !.moves = moves, !.i = 0,
                            !.capture_forced = capture_forced(moves),
                            !.h = h, !.tt_move = probe.tt_move,
                            !.best_score = -INF, !.best_move_local = moves[1],
                            !.flag = TT_ALPHA]]

alpha_beta_entry(f, tt) ==
  alpha_beta_node(f, generate_moves(f.board, f.player), compute_hash(f.board, f.player),
                  tt_probe(tt, compute_hash(f.board, f.player), f.depth, f.alpha, f.beta))

\* the locals of one turn of the move loop, for the move moves[i]
Promotion(f) == is_promotion_move(f.moves[f.i + 1], PieceOf(f.board, f.moves[f.i + 1]))
Extension(f) == IF Promotion(f) /\ f.ply < MAX_PLY THEN 1 ELSE 0
Reduction(f) ==
  IF f.depth >= 3 /\ ~f.capture_forced /\ ~Promotion(f)
     /\ Count(f.moves[f.i + 1]) = 1 /\ f.i > 3
  THEN 1 ELSE 0
TempBoard(f) == apply_move(f.board, f.moves[f.i + 1], f.player)

\* the three recursive calls of the move loop
FirstCall(f) ==
  NewFrame(TempBoard(f), f.depth - 1 + Extension(f), -f.beta, -f.alpha,
           enemy_of(f.player), f.ply + 1)
NullCall(f) ==
  NewFrame(TempBoard(f), f.depth - 1 - Reduction(f) + Extension(f), -f.alpha - 1, -f.alpha,
           enemy_of(f.player), f.ply + 1)
FullCall(f) ==
  NewFrame(TempBoard(f), f.depth - 1 + Extension(f), -f.beta, -f.alpha,
           enemy_of(f.player), f.ply + 1)

\* the killer and history update of a beta cutoff by the quiet move m
killers_after(killers, ply, m) ==
  [x \in DOMAIN killers \cup {ply} |->
     IF x = ply THEN <<m, KillersAt(killers, ply)[1]>> ELSE killers[x]]
history_after(history, player, m, depth) ==
  LET idx == <<IF is_white_side(player) THEN 0 ELSE 1,
               Sq(m.steps[1].r1, m.steps[1].c1), Sq(m.steps[1].r2, m.steps[1].c2)>>
  IN [x \in DOMAIN history \cup {idx} |->
        IF x = idx THEN HistoryAt(history, idx[1], idx[2], idx[3]) + depth * depth
        ELSE history[x]]

\* the body of the move loop after the calls on moves[i] returned score and
\* stop_search was found clear: the frame's locals, and whether the loop ends
after_score(f, score) ==
  LET m == f.moves[f.i + 1]
      better == score > f.best_score
      raised == better /\ score > f.alpha
      alpha2 == IF raised THEN score ELSE f.alpha
      cutoff == raised /\ alpha2 >= f.beta
  IN [frame |-> [f EXCEPT !.best_score = IF better THEN score ELSE @,
                          !.best_move_local = IF better THEN m ELSE @,
                          !.alpha = alpha2,
                          !.flag = IF cutoff THEN TT_BETA
                                   ELSE IF raised THEN TT_EXACT ELSE @],
      cutoff |-> cutoff,
      killer |-> cutoff /\ ~f.capture_forced /\ Count(m) = 1]

\* ------------------------------------------------------------- inputs
\* a board from placements <<piece, r, c>>
BoardOf(pl) ==
  [i \in Squares |->
     IF \E k \in 1..Len(pl) : Sq(pl[k][2], pl[k][3]) = i
     THEN pl[CHOOSE k \in 1..Len(pl) : Sq(pl[k][2], pl[k][3]) = i][1]
     ELSE EMPTY]

\* the enumerated boards: at most MaxPieces pieces, of any kind, on the dark
\* squares of the top-left quadrant
MaxPieces == 3
PieceCodes == {BLACK_MAN, WHITE_MAN, BLACK_KING, WHITE_KING}
WindowSquares ==
  {i \in Squares : RowOf(i) < SIZE \div 2 /\ ColOf(i) < SIZE \div 2
                   /\ (RowOf(i) + ColOf(i)) % 2 = 1}
WindowBoards ==
  {[i \in Squares |-> IF i \in DOMAIN f THEN f[i] ELSE EMPTY] :
     f \in UNION {[S -> PieceCodes] :
                    S \in {T \in SUBSET WindowSquares :
                             Cardinality(T) >= 1 /\ Cardinality(T) <= MaxPieces}}}

\* a white king whose four-capture chain ends on a square its first step flew over
BoardLoop ==
  BoardOf(<< <<WHITE_KING, 2, 3>>, <<BLACK_MAN, 4, 3>>, <<BLACK_MAN, 4, 5>>,
             <<BLACK_MAN, 6, 3>>, <<BLACK_MAN, 6, 5>> >>)
\* six white kings and ten black men: 148 capture chains, 64 of them of the
\* maximal length 9
BoardMany ==
  BoardOf(<< <<WHITE_KING, 0, 1>>, <<WHITE_KING, 0, 3>>, <<WHITE_KING, 0, 7>>,
             <<BLACK_MAN, 1, 2>>, <<BLACK_MAN, 1, 4>>, <<BLACK_MAN, 1, 6>>,
             <<BLACK_MAN, 3, 4>>, <<BLACK_MAN, 3, 6>>, <<BLACK_MAN, 4, 1>>,
             <<BLACK_MAN, 4, 3>>, <<WHITE_KING, 4, 7>>, <<WHITE_KING, 5, 2>>,
             <<BLACK_MAN, 5, 6>>, <<BLACK_MAN, 6, 1>>, <<BLACK_MAN, 6, 3>>,
             <<WHITE_KING, 6, 7>> >>)
\* a white king with a ten-capture chain, the longest an 8 x 8 board allows
BoardTen ==
  BoardOf(<< <<BLACK_MAN, 1, 2>>, <<BLACK_MAN, 1, 6>>, <<BLACK_MAN, 2, 3>>,
             <<BLACK_MAN, 2, 5>>, <<BLACK_MAN, 3, 0>>, <<BLACK_MAN, 3, 4>>,
             <<BLACK_MAN, 4, 1>>, <<BLACK_MAN, 4, 3>>, <<BLACK_MAN, 4, 5>>,
             <<BLACK_MAN, 6, 1>>, <<BLACK_MAN, 6, 3>>, <<BLACK_MAN, 6, 5>>,
             <<BLACK_MAN, 6, 7>>, <<WHITE_KING, 7, 0>> >>)
\* the scenarios S2, S3 and S5 of the specification
BoardS2 == BoardOf(<< <<WHITE_MAN, 4, 3>>, <<BLACK_MAN, 3, 2>> >>)
BoardS3 == BoardOf(<< <<WHITE_MAN, 4, 3>>, <<BLACK_MAN, 3, 2>>, <<BLACK_MAN, 1, 2>> >>)
BoardS5 == BoardOf(<< <<WHITE_KING, 7, 0>>, <<BLACK_MAN, 4, 3>> >>)
\* a black man one step from its promotion row, and one that captures onto it
BoardBlackPromo == BoardOf(<< <<BLACK_MAN, 6, 1>>, <<WHITE_MAN, 2, 3>> >>)
BoardBlackJump == BoardOf(<< <<BLACK_MAN, 5, 2>>, <<WHITE_MAN, 6, 3>>, <<WHITE_KING, 0, 1>> >>)

ScenarioBoards ==
  {BoardLoop, BoardMany, BoardTen, BoardS2, BoardS3, BoardS5, BoardBlackPromo, BoardBlackJump}

GenBoards == WindowBoards \cup ScenarioBoards
Players == {BLACK_MAN, WHITE_MAN}

\* ------------------------------------------------- the searched positions
\* three white men on row 5 against three black men on row 2
BoardThree ==
  BoardOf(<< <<WHITE_MAN, 5, 0>>, <<WHITE_MAN, 5, 2>>, <<WHITE_MAN, 5, 4>>,
             <<BLACK_MAN, 2, 1>>, <<BLACK_MAN, 2, 3>>, <<BLACK_MAN, 2, 5>> >>)
\* two white men against one black man: white finds a forced win
BoardWin == BoardOf(<< <<WHITE_MAN, 7, 0>>, <<WHITE_MAN, 7, 2>>, <<BLACK_MAN, 0, 1>> >>)
\* a white king with two captures of the same two pieces that differ only in
\* the square it lands on in between
BoardTwin ==
  BoardOf(<< <<WHITE_KING, 0, 7>>, <<BLACK_MAN, 2, 5>>, <<BLACK_KING, 3, 0>>,
             <<WHITE_KING, 3, 2>>, <<BLACK_KING, 5, 2>>, <<BLACK_KING, 7, 0>> >>)
\* black has no piece
BoardNoBlack == BoardOf(<< <<WHITE_KING, 7, 0>> >>)

\* the deepest max_depth passed, and the latest reading of the clock
MaxDepth == 8
MaxElapsed == 1

\* time_limit_sec: -1 is exceeded from the start, 0 once the clock has advanced
Limits == {-1, 0}

SearchInputs ==
  {[board |-> BoardThree, player |-> BLACK_MAN, max_depth |-> MaxDepth, limit |-> l] :
     l \in Limits}
  \cup {[board |-> b, player |-> WHITE_MAN, max_depth |-> md, limit |-> l] :
          b \in {BoardWin, BoardTwin, BoardS2}, md \in (-1)..MaxDepth, l \in Limits}
  \cup {[board |-> BoardNoBlack, player |-> BLACK_MAN, max_depth |-> 1, limit |-> 0]}

\* -------------------------------------------------------------- state
VARIABLES
  gen,                  \* move generation and application on one input board:
                        \* [phase, board, player, moves, move, after]
  transposition_table,  \* slot index -> TTEntry, for the slots written
  killer_moves,         \* ply -> <<Move, Move>>, for the plies written
  history_table,        \* <<side, from, to>> -> int, for the entries written
  stop_search,
  nodes_visited,
  time_limit_sec,
  elapsed,              \* high_resolution_clock::now() - start_time
  drv,                  \* get_best_move: its arguments, the statement it has
                        \* reached (pc) and its locals
  stack,                \* the alpha_beta calls in progress, the innermost last
  ret,                  \* <<v>> while a call's return value v is on its way to
                        \* the caller, <<>> otherwise
  result,               \* the caller's MoveResult
  hist                  \* history of the run: stop_iter, the iteration in
                        \* progress when stop_search was set (0: never), and
                        \* commits, the [move, score] each completed
                        \* iteration committed; saved, the arguments of the
                        \* last tt_save call made from outside the search

vars == <<gen, transposition_table, killer_moves, history_table, stop_search,
          nodes_visited, time_limit_sec, elapsed, drv, stack, ret, result, hist>>

\* the empty function: no slot, no entry written
NoEntries == [x \in {} |-> 0]

DrvIdle ==
  [pc |-> "idle", board |-> [i \in Squares |-> EMPTY], player |-> WHITE_MAN,
   max_depth |-> 0, root_moves |-> <<>>, best_overall |-> EmptyMove,
   best_score_overall |-> 0, reached_depth |-> 0, d |-> 0, alpha |-> 0, i |-> 0,
   current_best_move |-> EmptyMove, current_best_score |-> 0]

ZeroResult == [count |-> 0, steps |-> <<>>, score |-> 0, depth |-> 0, nodes |-> 0]

\* the globals as the program starts, and no call of get_best_move in progress
SearchIdle ==
  /\ transposition_table = NoEntries
  /\ killer_moves = NoEntries
  /\ history_table = NoEntries
  /\ stop_search = FALSE
  /\ nodes_visited = 0
  /\ time_limit_sec = 0
  /\ elapsed = 0
  /\ drv = DrvIdle
  /\ stack = <<>>
  /\ ret = <<>>
  /\ result = ZeroResult
  /\ hist = [stop_iter |-> 0, commits |-> <<>>]

SearchVars ==
  <<transposition_table, killer_moves, history_table, stop_search, nodes_visited,
    time_limit_sec, elapsed, drv, stack, ret, result, hist>>

GenIdle ==
  [phase |-> "idle", board |-> [i \in Squares |-> EMPTY], player |-> WHITE_MAN,
   moves |-> <<>>, move |-> EmptyMove, after |-> [i \in Squares |-> EMPTY]]

\* ------------------------------------------- generation and application
GenInit ==
  /\ \E b \in GenBoards, p \in Players :
       gen = [phase |-> "input", board |-> b, player |-> p, moves |-> <<>>,
              move |-> EmptyMove, after |-> b]
  /\ SearchIdle

\* generate_moves(board, player, moves)
GenerateMoves ==
  /\ gen.phase = "input"
  /\ gen' = [gen EXCEPT !.phase = "generated",
                        !.moves = generate_moves(gen.board, gen.player)]
  /\ UNCHANGED SearchVars

\* apply_move(temp_board, moves[i], player, captured) on a copy of the board
ApplyMove ==
  /\ gen.phase = "generated"
  /\ \E i \in 1..Len(gen.moves) :
       gen' = [gen EXCEPT !.phase = "applied", !.move = gen.moves[i],
                          !.after = apply_move(gen.board, gen.moves[i], gen.player)]
  /\ UNCHANGED SearchVars

GenNext == GenerateMoves \/ ApplyMove
SpecGen == GenInit /\ [][GenNext]_vars

\* ------------------------------------ the search: one get_best_move call
\* the move loop's continuation once moves[i] is dealt with: the next move,
\* or tt_save and the return of best_score
Top == stack[Len(stack)]
Callers == SubSeq(stack, 1, Len(stack) - 1)

Return(value) ==
  /\ stack' = Callers
  /\ ret' = <<value>>

\* alpha_beta, lines 470-513: the node count, the clock sample, the stop test,
\* the generated moves, the static evaluation, the table probe
Entered(e) ==
  IF e.returns THEN Return(e.value)
  ELSE stack' = Append(Callers, e.frame) /\ ret' = <<>>

AlphaBetaEnter ==
  /\ stack # <<>> /\ ret = <<>> /\ Top.pc = "entry"
  /\ nodes_visited' = nodes_visited + 1
  /\ \E now \in (IF clock_sampled(nodes_visited + 1) THEN elapsed..MaxElapsed ELSE {elapsed}) :
       /\ elapsed' = now
       /\ stop_search' = (stop_search \/ (clock_sampled(nodes_visited + 1) /\ now > time_limit_sec))
  /\ hist' = IF stop_search' /\ ~stop_search THEN [hist EXCEPT !.stop_iter = drv.d] ELSE hist
  /\ IF stop_search'
     THEN Return(0)
     ELSE Entered(alpha_beta_entry(Top, transposition_table))
  /\ UNCHANGED <<gen, drv, result, transposition_table, killer_moves, history_table,
                 time_limit_sec>>

\* lines 516-537: pick_move brings the best-ordered move to moves[i], and the
\* first search of it is called; pick_move reads the killer row of the ply
\* for every move that score_move_ordering takes that far
AlphaBetaLoop ==
  /\ stack # <<>> /\ ret = <<>> /\ Top.pc = "loop"
  /\ IF pick_reads_killers(Top.moves, Top.i + 1, Top.tt_move) /\ ~killer_row(Top.ply)
     THEN stack' = Append(Callers, [Top EXCEPT !.pc = "undefined"])
     ELSE LET f == [Top EXCEPT !.moves = pick_move(Top.moves, Top.i + 1, Top.tt_move,
                                                   Top.ply, killer_moves, history_table)]
          IN stack' = IF f.i = 0
                      THEN Callers \o <<[f EXCEPT !.pc = "first"], FirstCall(f)>>
                      ELSE Callers \o <<[f EXCEPT !.pc = "null"], NullCall(f)>>
  /\ UNCHANGED <<gen, drv, result, ret, hist, transposition_table, killer_moves,
                 history_table, stop_search, nodes_visited, time_limit_sec, elapsed>>

\* lines 537-566: a call on moves[i] has returned; on a beta cutoff by a quiet
\* move the killer row of the ply is written before the loop is left
AlphaBetaReturn ==
  /\ stack # <<>> /\ ret # <<>> /\ Top.pc \in {"first", "null", "full"}
  /\ LET f == Top
         score == -ret[1]
         a == after_score(f, score)
         g == a.frame
     IN IF f.pc = "null" /\ score > f.alpha /\ score < f.beta
        THEN /\ stack' = Callers \o <<[f EXCEPT !.pc = "full"], FullCall(f)>>
             /\ ret' = <<>>
             /\ UNCHANGED <<transposition_table, killer_moves, history_table>>
        ELSE IF unwinding(stop_search)
        THEN /\ Return(0)
             /\ UNCHANGED <<transposition_table, killer_moves, history_table>>
        ELSE IF ~a.cutoff /\ f.i + 1 < Len(f.moves)
        THEN /\ stack' = Append(Callers, [g EXCEPT !.pc = "loop", !.i = f.i + 1])
             /\ ret' = <<>>
             /\ UNCHANGED <<transposition_table, killer_moves, history_table>>
        ELSE IF a.killer /\ ~killer_row(f.ply)
        THEN /\ stack' = Append(Callers, [g EXCEPT !.pc = "undefined"])
             /\ ret' = <<>>
             /\ UNCHANGED <<transposition_table, killer_moves, history_table>>
        ELSE /\ Return(g.best_score)
             /\ transposition_table' =
                  tt_save(transposition_table, g.h, g.best_score, g.depth, g.flag,
                          g.best_move_local)
             /\ killer_moves' = IF a.killer
                                THEN killers_after(killer_moves, f.ply, f.moves[f.i + 1])
                                ELSE killer_moves
             /\ history_table' = IF a.killer
                                 THEN history_after(history_table, f.player,
                                                    f.moves[f.i + 1], f.depth)
                                 ELSE history_table
  /\ UNCHANGED <<gen, drv, result, hist, stop_search, nodes_visited, time_limit_sec, elapsed>>

\* the MoveResult of the single-move shortcut, lines 588-593
single_move_result_Empty(root_moves) ==
  [count |-> 0, steps |-> <<>>, score |-> 0, depth |-> 1, nodes |-> 0]

single_move_result(root_moves) ==
  [count |-> Count(root_moves[1]), steps |-> root_moves[1].steps, score |-> 0,
   depth |-> 1, nodes |-> 0]

\* if (stop_search) break, in the root move loop and after it
interrupted_Never(stop) == FALSE

interrupted(stop) == stop

\* lines 645-653: the committed move, or root_moves[0] when that has no steps
final_result(d, nodes) ==
  LET r == [count |-> Count(d.best_overall), steps |-> d.best_overall.steps,
            score |-> d.best_score_overall, depth |-> d.reached_depth, nodes |-> nodes]
  IN IF r.count = 0 /\ Len(d.root_moves) > 0
     THEN [r EXCEPT !.count = Count(d.root_moves[1]), !.steps = d.root_moves[1].steps]
     ELSE r

\* the locals of one turn of the root move loop, for the move root_moves[i]
RootExtension(d) ==
  IF is_promotion_move(d.root_moves[d.i + 1], PieceOf(d.board, d.root_moves[d.i + 1]))
  THEN 1 ELSE 0
RootTempBoard(d) == apply_move(d.board, d.root_moves[d.i + 1], d.player)
\* the calls of lines 623, 625 and 626; beta stays INF in the driver
RootFirstCall(d) ==
  NewFrame(RootTempBoard(d), d.d - 1 + RootExtension(d), -INF, -d.alpha, enemy_of(d.player), 1)
RootNullCall(d) ==
  NewFrame(RootTempBoard(d), d.d - 1 + RootExtension(d), -d.alpha - 1, -d.alpha,
           enemy_of(d.player), 1)
RootFullCall(d) ==
  NewFrame(RootTempBoard(d), d.d - 1 + RootExtension(d), -INF, -d.alpha, enemy_of(d.player), 1)

\* get_best_move, lines 579-604: the root moves, the two shortcuts, the reset
\* of the clock, the stop flag and the node count
Generated(root_moves) ==
  IF Len(root_moves) = 0
  THEN /\ result' = [result EXCEPT !.count = 0, !.score = -MATE]
       /\ drv' = [drv EXCEPT !.pc = "done", !.root_moves = root_moves]
       /\ UNCHANGED <<stop_search, nodes_visited, elapsed>>
  ELSE IF Len(root_moves) = 1
  THEN /\ result' = single_move_result(root_moves)
       /\ drv' = [drv EXCEPT !.pc = "done", !.root_moves = root_moves]
       /\ UNCHANGED <<stop_search, nodes_visited, elapsed>>
  ELSE /\ drv' = [drv EXCEPT !.pc = "iter", !.root_moves = root_moves,
                             !.best_overall = root_moves[1],
                             !.best_score_overall = -INF,
                             !.reached_depth = 0, !.d = 1]
       /\ stop_search' = FALSE
       /\ nodes_visited' = 0
       /\ elapsed' = 0
       /\ UNCHANGED result

GetBestMove ==
  /\ drv.pc = "call"
  /\ Generated(generate_moves(drv.board, drv.player))
  /\ UNCHANGED <<gen, stack, ret, hist, transposition_table, killer_moves, history_table,
                 time_limit_sec>>

\* lines 606-610: iteration d begins; no statement here reads the clock
BeginIteration ==
  /\ drv.pc = "iter" /\ drv.d <= drv.max_depth
  /\ LET rm == pick_move(drv.root_moves, 1, drv.best_overall, 0, killer_moves, history_table)
     IN drv' = [drv EXCEPT !.pc = "root_loop", !.alpha = -INF, !.root_moves = rm,
                           !.current_best_move = rm[1], !.current_best_score = -INF,
                           !.i = 0]
  /\ UNCHANGED <<gen, stack, ret, result, hist, transposition_table, killer_moves,
                 history_table, stop_search, nodes_visited, time_limit_sec, elapsed>>

\* lines 612-625: the first search of root_moves[i] is called
RootCall ==
  /\ drv.pc = "root_loop" /\ stack = <<>> /\ ret = <<>>
  /\ IF drv.i = 0
     THEN stack' = <<RootFirstCall(drv)>> /\ drv' = [drv EXCEPT !.pc = "first"]
     ELSE stack' = <<RootNullCall(drv)>> /\ drv' = [drv EXCEPT !.pc = "null"]
  /\ UNCHANGED <<gen, ret, result, hist, transposition_table, killer_moves, history_table,
                 stop_search, nodes_visited, time_limit_sec, elapsed>>

\* lines 625-642: a call on root_moves[i] has returned to the driver
RootReturn ==
  /\ drv.pc \in {"first", "null", "full"} /\ stack = <<>> /\ ret # <<>>
  /\ LET score == -ret[1]
         m == drv.root_moves[drv.i + 1]
         better == score > drv.current_best_score
         d1 == [drv EXCEPT !.current_best_score = IF better THEN score ELSE @,
                           !.current_best_move = IF better THEN m ELSE @,
                           !.alpha = IF better /\ score > @ THEN score ELSE @]
     IN IF drv.pc = "null" /\ score > drv.alpha /\ score < INF
        THEN /\ stack' = <<RootFullCall(drv)>>
             /\ drv' = [drv EXCEPT !.pc = "full"]
             /\ UNCHANGED hist
        ELSE IF interrupted(stop_search)
        THEN /\ drv' = [drv EXCEPT !.pc = "break"]
             /\ UNCHANGED <<stack, hist>>
        ELSE IF drv.i + 1 < Len(drv.root_moves)
        THEN /\ drv' = [d1 EXCEPT !.pc = "root_loop", !.i = drv.i + 1]
             /\ UNCHANGED <<stack, hist>>
        ELSE /\ drv' = [d1 EXCEPT !.best_overall = d1.current_best_move,
                                  !.best_score_overall = d1.current_best_score,
                                  !.reached_depth = drv.d,
                                  !.d = IF d1.current_best_score > MATE - 5000 THEN @ ELSE @ + 1,
                                  !.pc = IF d1.current_best_score > MATE - 5000
                                         THEN "break" ELSE "iter"]
             /\ hist' = [hist EXCEPT !.commits =
                           Append(@, [move |-> d1.current_best_move,
                                      score |-> d1.current_best_score])]
             /\ UNCHANGED stack
  /\ ret' = <<>>
  /\ UNCHANGED <<gen, result, transposition_table, killer_moves, history_table,
                 stop_search, nodes_visited, time_limit_sec, elapsed>>

\* lines 645-654: the loop over the depths has ended
Finish ==
  /\ drv.pc = "break" \/ (drv.pc = "iter" /\ drv.d > drv.max_depth)
  /\ result' = final_result(drv, nodes_visited)
  /\ drv' = [drv EXCEPT !.pc = "done"]
  /\ UNCHANGED <<gen, stack, ret, hist, transposition_table, killer_moves, history_table,
                 stop_search, nodes_visited, time_limit_sec, elapsed>>

SearchInit ==
  /\ gen = GenIdle
  /\ transposition_table = NoEntries
  /\ killer_moves = NoEntries
  /\ history_table = NoEntries
  /\ stop_search = FALSE
  /\ nodes_visited = 0
  /\ elapsed = 0
  /\ stack = <<>>
  /\ ret = <<>>
  /\ result = ZeroResult
  /\ hist = [stop_iter |-> 0, commits |-> <<>>]
  /\ \E in \in SearchInputs :
       /\ time_limit_sec = in.limit
       /\ drv = [DrvIdle EXCEPT !.pc = "call", !.board = in.board, !.player = in.player,
                                !.max_depth = in.max_depth]

SearchNext ==
  \/ GetBestMove
  \/ BeginIteration
  \/ RootCall
  \/ RootReturn
  \/ Finish
  \/ AlphaBetaEnter
  \/ AlphaBetaLoop
  \/ AlphaBetaReturn

SpecSearch == SearchInit /\ [][SearchNext]_vars

\* ------------------------------------------- the search: one alpha_beta call
\* a white man one step from promotion, a black man one step from promotion and
\* a black man in the open
BoardExtend ==
  BoardOf(<< <<WHITE_MAN, 1, 0>>, <<BLACK_MAN, 6, 1>>, <<BLACK_MAN, 2, 5>> >>)

\* the boards of at most two pieces on the dark squares of the top-left quadrant
SmallBoards ==
  {b \in WindowBoards : Cardinality({i \in Squares : b[i] # EMPTY}) <= 2}

\* the largest depth alpha_beta is called with directly; the smallest is the
\* floor of line 501 less one
MaxCallDepth == 1
CallDepths == (-13)..MaxCallDepth
CallWindows == {<<-INF, INF>>, <<-1, 0>>, <<0, 1>>}

AlphaBetaInputs ==
  {[board |-> b, player |-> p, depth |-> d, alpha |-> w[1], beta |-> w[2], ply |-> 1] :
     b \in {BoardExtend, BoardNoBlack, BoardS3, BoardBlackPromo, BoardBlackJump},
     p \in Players, d \in CallDepths, w \in CallWindows}
  \cup {[board |-> b, player |-> p, depth |-> d, alpha |-> -INF, beta |-> INF, ply |-> 0] :
          b \in SmallBoards, p \in Players, d \in {-13, -12, 0, MaxCallDepth}}

\* the program as it starts, no call in progress
AlphaBetaInit ==
  /\ gen = GenIdle
  /\ SearchIdle

\* alpha_beta(board, depth, alpha, beta, player, ply, true) is called on the
\* fresh tables, under a time limit the clock never passes
AlphaBetaCall ==
  /\ stack = <<>> /\ ret = <<>> /\ nodes_visited = 0
  /\ \E in \in AlphaBetaInputs :
       stack' = <<NewFrame(in.board, in.depth, in.alpha, in.beta, in.player, in.ply)>>
  /\ time_limit_sec' = MaxElapsed
  /\ UNCHANGED <<gen, drv, ret, result, hist, transposition_table, killer_moves,
                 history_table, stop_search, nodes_visited, elapsed>>

AlphaBetaNext ==
  \/ AlphaBetaCall
  \/ AlphaBetaEnter
  \/ AlphaBetaLoop
  \/ AlphaBetaReturn

SpecAlphaBeta == AlphaBetaInit /\ [][AlphaBetaNext]_vars

\* a statement of the call is ready to run: the call itself, or the next
\* statement of the innermost alpha_beta
Running ==
  \/ stack = <<>> /\ ret = <<>> /\ nodes_visited = 0
  \/ stack # <<>> /\ ret = <<>> /\ Top.pc \in {"entry", "loop"}
  \/ stack # <<>> /\ ret # <<>> /\ Top.pc \in {"first", "null", "full"}

\* the thread that made the call keeps running it: weak fairness of
\* AlphaBetaNext, which is enabled exactly in the states of Running
SpecAlphaBetaLive ==
  SpecAlphaBeta /\ ([]<>(~Running) \/ []<><<AlphaBetaNext>>_vars)

\* ----------------------------------------------- the table: tt_save calls
\* two keys of slot 5 that differ above bit 23, a key of slot 6, and the key 0,
\* which the zeroed slot 0 holds from the start
SaveKeys == {<<0, 0, 5>>, <<1, 0, 5>>, <<0, 0, 6>>, ZeroKey}
\* the largest depth saved; the smallest is a quiescence depth
MaxSaveDepth == 2
SaveDepths == (-1)..MaxSaveDepth
SaveFlags == {TT_EXACT, TT_BETA}
SaveMoves == {MkMove(<<MkStep(5, 0, 4, 1)>>)}

TTSaveInputs ==
  {[key |-> k, score |-> 7, depth |-> d, flag |-> f, best_move |-> m] :
     k \in SaveKeys, d \in SaveDepths, f \in SaveFlags, m \in SaveMoves}

\* the program as it starts, the table zeroed
TTInit ==
  /\ gen = GenIdle
  /\ SearchIdle

\* tt_save(key, score, depth, flag, best_move); hist.saved keeps the arguments
TTSave ==
  /\ \E a \in TTSaveInputs :
       /\ transposition_table' =
            tt_save(transposition_table, a.key, a.score, a.depth, a.flag, a.best_move)
       /\ hist' = [stop_iter |-> hist.stop_iter, commits |-> hist.commits, saved |-> a]
  /\ UNCHANGED <<gen, drv, stack, ret, result, killer_moves, history_table, stop_search,
                 nodes_visited, time_limit_sec, elapsed>>

TTNext == TTSave

SpecTT == TTInit /\ [][TTNext]_vars

\* ------------------------------------ the search: calls at the last plies
\* get_best_move passes ply 1 to alpha_beta and every call passes ply + 1 on,
\* so the calls of a line searched d plies deep reach ply d. The boards here
\* are those of a drawn ending, a black king against a white king, in which
\* the kings go back and forth between the same squares: the search of such
\* an ending follows that line further with every iteration.
BoardWhiteTurn == BoardOf(<< <<BLACK_KING, 0, 3>>, <<WHITE_KING, 3, 6>> >>)
BoardBlackTurn == BoardOf(<< <<BLACK_KING, 0, 3>>, <<WHITE_KING, 6, 3>> >>)

\* the plies of the calls: the last rows of the killer table
LatePlies == (MAX_PLY - 3)..(MAX_PLY - 1)
\* the largest depth left at those plies
MaxLateDepth == 3
LateDepths == 1..MaxLateDepth

\* white to move is searched in the window (-1, 0), black in (0, 1): the
\* null windows around the score of a draw
LateInputs ==
  {[board |-> BoardWhiteTurn, player |-> WHITE_MAN, depth |-> d, alpha |-> -1, beta |-> 0,
    ply |-> p] : d \in LateDepths, p \in LatePlies}
  \cup {[board |-> BoardBlackTurn, player |-> BLACK_MAN, depth |-> d, alpha |-> 0,
         beta |-> 1, ply |-> p] : d \in LateDepths, p \in LatePlies}

\* the program as it starts, no call in progress
LateInit ==
  /\ gen = GenIdle
  /\ SearchIdle

\* alpha_beta(board, depth, alpha, beta, player, ply, true), on the fresh
\* tables and under a time limit the clock never passes
LateCall ==
  /\ stack = <<>> /\ ret = <<>> /\ nodes_visited = 0
  /\ \E in \in LateInputs :
       stack' = <<NewFrame(in.board, in.depth, in.alpha, in.beta, in.player, in.ply)>>
  /\ time_limit_sec' = MaxElapsed
  /\ UNCHANGED <<gen, drv, ret, result, hist, transposition_table, killer_moves,
                 history_table, stop_search, nodes_visited, elapsed>>

LateNext ==
  \/ LateCall
  \/ AlphaBetaEnter
  \/ AlphaBetaLoop
  \/ AlphaBetaReturn

SpecLate == LateInit /\ [][LateNext]_vars

\* ------------------------------------------------ the rules of the game
\* What the claims about generation and application are measured against:
\* the moves of the rules, stated on the input board alone.
IsEnemy(p, white) ==
  IF white THEN p = BLACK_MAN \/ p = BLACK_KING ELSE p = WHITE_MAN \/ p = WHITE_KING
IsOwn(p, white) ==
  IF white THEN p = WHITE_MAN \/ p = WHITE_KING ELSE p = BLACK_MAN \/ p = BLACK_KING
IsKing(p) == p = WHITE_KING \/ p = BLACK_KING
PieceCount(board) == Cardinality({i \in Squares : board[i] \in PieceCodes})

\* the squares strictly between the ends of a diagonal step
Between(s) ==
  LET n == Abs(s.r2 - s.r1)
      dr == IF s.r2 > s.r1 THEN 1 ELSE -1
      dc == IF s.c2 > s.c1 THEN 1 ELSE -1
  IN {Sq(s.r1 + j * dr, s.c1 + j * dc) : j \in 1..(n - 1)}

\* during a chain the piece has left its origin, and the pieces it has taken
\* stay on the board until the chain ends
Free(board, origin, i) == board[i] = EMPTY \/ i = origin

\* the single captures open to the piece of `origin` standing on `pos`
\* having taken `taken`: [victim, to]
RuleJumps(board, origin, pos, taken) ==
  LET piece == board[origin]
      white == is_white_side(piece)
      r == RowOf(pos)
      c == ColOf(pos)
  IN {[victim |-> Sq(r + k * drs[d], c + k * dcs[d]),
       to |-> Sq(r + (k + l) * drs[d], c + (k + l) * dcs[d])] :
        <<d, k, l>> \in
          {x \in (1..4) \X (1..(SIZE - 1)) \X (1..(SIZE - 1)) :
             /\ IsKing(piece) \/ (x[2] = 1 /\ x[3] = 1)
             /\ is_valid(r + (x[2] + x[3]) * drs[x[1]], c + (x[2] + x[3]) * dcs[x[1]])
             /\ IsEnemy(board[Sq(r + x[2] * drs[x[1]], c + x[2] * dcs[x[1]])], white)
             /\ Sq(r + x[2] * drs[x[1]], c + x[2] * dcs[x[1]]) \notin taken
             /\ \A j \in 1..(x[2] - 1) :
                  Free(board, origin, Sq(r + j * drs[x[1]], c + j * dcs[x[1]]))
             /\ \A j \in (x[2] + 1)..(x[2] + x[3]) :
                  Free(board, origin, Sq(r + j * drs[x[1]], c + j * dcs[x[1]]))}}

RECURSIVE RuleChainsFrom(_, _, _, _)
\* the chains that continue until no capture is left, as step sequences
RuleChainsFrom(board, origin, pos, taken) ==
  LET js == RuleJumps(board, origin, pos, taken)
  IN IF js = {} THEN {<<>>}
     ELSE UNION {{<<MkStep(RowOf(pos), ColOf(pos), RowOf(j.to), ColOf(j.to))>> \o rest :
                    rest \in RuleChainsFrom(board, origin, j.to, taken \cup {j.victim})} :
                 j \in js}

RuleCaptures(board, player) ==
  UNION {RuleChainsFrom(board, i, i, {}) \ {<<>>} :
           i \in {q \in Squares : IsOwn(board[q], is_white_side(player))}}

RuleQuiet(board, player) ==
  LET white == is_white_side(player)
  IN {<<MkStep(RowOf(i), ColOf(i), RowOf(i) + x[2] * drs[x[1]], ColOf(i) + x[2] * dcs[x[1]])>> :
        <<i, x>> \in
          {y \in {q \in Squares : IsOwn(board[q], white)} \X ((1..4) \X (1..(SIZE - 1))) :
             /\ is_valid(RowOf(y[1]) + y[2][2] * drs[y[2][1]], ColOf(y[1]) + y[2][2] * dcs[y[2][1]])
             /\ \A j \in 1..y[2][2] :
                  board[Sq(RowOf(y[1]) + j * drs[y[2][1]], ColOf(y[1]) + j * dcs[y[2][1]])] = EMPTY
             /\ IsKing(board[y[1]])
                \/ (y[2][2] = 1 /\ drs[y[2][1]] = (IF white THEN -1 ELSE 1))}}

SetMax(S) == CHOOSE n \in S : \A k \in S : k <= n

RuleMoves(board, player) ==
  LET caps == RuleCaptures(board, player)
  IN IF caps # {}
     THEN {ch \in caps : Len(ch) = SetMax({Len(x) : x \in caps})}
     ELSE RuleQuiet(board, player)

StepsOf(moves) == {moves[i].steps : i \in 1..Len(moves)}
NoRepeat(moves) == \A i, j \in 1..Len(moves) : moves[i].steps = moves[j].steps => i = j

\* C1 (as claimed): generate_moves returns exactly the capture chains of
\* maximal length when a capture exists, and otherwise exactly the legal quiet
\* moves; nothing missing, nothing extra, nothing twice.
C1_GenerateExact ==
  gen.phase = "generated" =>
    /\ StepsOf(gen.moves) = RuleMoves(gen.board, gen.player)
    /\ NoRepeat(gen.moves)

\* the enemy pieces a step flies over, on the input board
Jumped(board, player, s) ==
  {i \in Between(s) : IsEnemy(board[i], is_white_side(player))}
\* a move of the list captures when its first step flies over an enemy piece
Captures(board, player, m) == Jumped(board, player, m.steps[1]) # {}
CapturedCount(board, player, m) == IF Captures(board, player, m) THEN Count(m) ELSE 0

\* C2 (as claimed): apply_move of a generated move lowers the number of pieces
\* on the board by exactly the number of captures of the chain (0 for a quiet
\* move) and leaves the moving piece on the final square.
C2_ApplyRemovesCaptured ==
  gen.phase = "applied" =>
    /\ PieceCount(gen.after) =
         PieceCount(gen.board) - CapturedCount(gen.board, gen.player, gen.move)
    /\ IsOwn(gen.after[Sq(gen.move.steps[Count(gen.move)].r2,
                          gen.move.steps[Count(gen.move)].c2)],
             is_white_side(gen.player))

\* the Move invariants of a capture chain, read off the input board
ChainOK(board, player, m) ==
  /\ Count(m) >= 1 /\ Count(m) <= MAX_STEPS
  /\ \A k \in 1..(Count(m) - 1) :
       m.steps[k].r2 = m.steps[k + 1].r1 /\ m.steps[k].c2 = m.steps[k + 1].c1
  /\ \A k \in 1..Count(m) :
       /\ Abs(m.steps[k].r2 - m.steps[k].r1) = Abs(m.steps[k].c2 - m.steps[k].c1)
       /\ Cardinality(Jumped(board, player, m.steps[k])) = 1
       \* a square jumped earlier in the chain is not landed on
       /\ \A j \in 1..k :
            Sq(m.steps[k].r2, m.steps[k].c2) \notin Jumped(board, player, m.steps[j])
  /\ \A j, k \in 1..Count(m) :
       Jumped(board, player, m.steps[j]) = Jumped(board, player, m.steps[k]) => j = k

\* C7: every capture move generate_moves emits has 1..12 steps, each step's
\* destination is the next step's source, every step jumps exactly one enemy
\* piece, no enemy piece is jumped twice, and no jumped square is landed on.
C7_CaptureChainsWellFormed ==
  gen.phase = "generated" =>
    \A i \in 1..Len(gen.moves) :
      Captures(gen.board, gen.player, gen.moves[i]) =>
        ChainOK(gen.board, gen.player, gen.moves[i])

\* a chain of four captures or more is in the list (the least that can cross
\* its own path)
C7_Witness ==
  /\ gen.phase = "generated"
  /\ \E i \in 1..Len(gen.moves) :
       Count(gen.moves[i]) >= 4 /\ Captures(gen.board, gen.player, gen.moves[i])

\* C8: at a node with at least one move, capture_forced is true exactly when
\* the generated list consists of capture chains; it is false when only quiet
\* moves exist, also when a king can slide two squares or more.
C8_CaptureForcedIffCaptures ==
  (gen.phase = "generated" /\ Len(gen.moves) >= 1) =>
    /\ capture_forced(gen.moves) <=>
         (\A i \in 1..Len(gen.moves) : Captures(gen.board, gen.player, gen.moves[i]))
    /\ capture_forced(gen.moves) <=> RuleCaptures(gen.board, gen.player) # {}

\* only quiet moves exist, one of them a king's slide over two rows or more
C8_Witness ==
  /\ gen.phase = "generated"
  /\ RuleCaptures(gen.board, gen.player) = {}
  /\ \E i \in 1..Len(gen.moves) :
       Abs(gen.moves[i].steps[1].r1 - gen.moves[i].steps[1].r2) >= 2
  /\ ~capture_forced(gen.moves)

\* --------------------------------------------- claims about the search
\* the moves generate_moves gives for the position get_best_move was called on
RootMoves == generate_moves(drv.board, drv.player)

\* C3: with at least two root moves, a call in which stop_search was set while
\* iteration d was in progress returns depth d - 1, and no iteration after
\* d - 1 has committed; for d >= 2 the returned move and score are the ones
\* iteration d - 1 committed.
C3_StopKeepsLastCommit ==
  (drv.pc = "done" /\ stop_search /\ Len(drv.root_moves) >= 2) =>
    LET d == hist.stop_iter
    IN /\ d >= 1
       /\ result.depth = d - 1
       /\ Len(hist.commits) = d - 1
       /\ d >= 2 => /\ result.count = Count(hist.commits[d - 1].move)
                    /\ result.steps = hist.commits[d - 1].move.steps
                    /\ result.score = hist.commits[d - 1].score

\* a call has returned that was stopped in its second or a later iteration,
\* whose running best score was not the score of the last commit
C3_Witness ==
  /\ drv.pc = "done" /\ stop_search /\ Len(drv.root_moves) >= 2
  /\ hist.stop_iter >= 2
  /\ drv.current_best_score # drv.best_score_overall

\* C4: when the root position has a move, the move get_best_move writes to the
\* result has at least one step and is, step for step, one of the moves
\* generate_moves gives for the root position, whatever the time limit and
\* max_depth.
C4_ResultIsRootMove ==
  (drv.pc = "done" /\ Len(RootMoves) >= 1) =>
    /\ result.count >= 1
    /\ result.count = Len(result.steps)
    /\ \E k \in 1..Len(RootMoves) : RootMoves[k].steps = result.steps

\* a call with several root moves, max_depth <= 0 and a limit exceeded from the
\* start has returned
C4_Witness ==
  /\ drv.pc = "done" /\ Len(RootMoves) >= 2
  /\ drv.max_depth <= 0 /\ time_limit_sec < 0
  /\ result.count >= 1

\* C6: once stop_search is true it stays true; in every step that ends with it
\* true, the transposition table, the killer table and the history table are
\* left as they were, a value on its way to a caller is 0, and no call gets
\* past its entry (no frame not seen before stands beyond "entry").
C6_Step ==
  /\ stop_search => stop_search'
  /\ stop_search' =>
       /\ transposition_table' = transposition_table
       /\ killer_moves' = killer_moves
       /\ history_table' = history_table
       /\ ret' # <<>> => ret' = <<0>>
       /\ \A k \in DOMAIN stack' :
            stack'[k].pc # "entry" => (k \in DOMAIN stack /\ stack[k].pc # "entry")
C6_StoppedSearchUnwinds == [][C6_Step]_vars

\* stop_search is set and a call made after that stands at its entry
C6_Witness ==
  /\ stop_search /\ stack # <<>>
  /\ stack[Len(stack)].pc = "entry"

\* C9: when an iteration d >= 2 has just begun, root_moves[0] is step for step
\* the move the iteration before committed.
C9_FirstRootMoveIsLastBest ==
  (drv.pc = "root_loop" /\ drv.i = 0 /\ drv.d >= 2) =>
    drv.root_moves[1].steps = drv.best_overall.steps

\* C10: no iteration has just begun with the elapsed time over the limit.
C10_NoIterationBeginsLate ==
  ~(drv.pc = "root_loop" /\ drv.i = 0 /\ elapsed > time_limit_sec)

\* C10, as the code has it: the driver does not read the clock.  With d <=
\* max_depth at the head of the depth loop it begins iteration d and leaves
\* stop_search alone, whatever the elapsed time; stop_search is set only in an
\* alpha_beta call that raises nodes_visited to a multiple of 2048 and reads an
\* elapsed time over the limit.
C10_Step ==
  /\ (drv.pc = "iter" /\ drv.d <= drv.max_depth) =>
       (drv'.pc = "root_loop" /\ drv'.d = drv.d /\ stop_search' = stop_search)
  /\ (stop_search' /\ ~stop_search) =>
       /\ stack # <<>>
       /\ nodes_visited' = nodes_visited + 1
       /\ nodes_visited' % 2048 = 0
       /\ elapsed' > time_limit_sec
C10_ClockReadOnlyInSearch == [][C10_Step]_vars

\* iteration d >= 2 has just begun although the time was already over the limit
C10_Witness ==
  /\ drv.pc = "root_loop" /\ drv.i = 0 /\ drv.d >= 2
  /\ elapsed > time_limit_sec /\ ~stop_search

\* ------------------------------------------------------------------ C11
Men(board) == {i \in Squares : board[i] = WHITE_MAN \/ board[i] = BLACK_MAN}

\* the links of the recursion path across which depth does not decrease
LevelLinks == {k \in 1..(Len(stack) - 1) : stack[k + 1].depth >= stack[k].depth}

\* no frame of the recursion path has a depth below -13, and the links across
\* which depth does not decrease are no more than the men of the first board
C11_DepthFloor ==
  /\ \A k \in 1..Len(stack) : stack[k].depth >= -13
  /\ stack # <<>> => Cardinality(LevelLinks) <= Cardinality(Men(stack[1].board))

\* a step that enters a node with depth < -12, stop_search staying clear
C11_FloorEntry ==
  /\ stack # <<>> /\ ret = <<>> /\ Top.pc = "entry" /\ Top.depth < -12
  /\ nodes_visited' = nodes_visited + 1 /\ ~stop_search'

\* a step that makes a recursive call: from a node that is not below the floor,
\* one ply deeper, with a depth that is smaller, or equal across a single-step
\* promotion move made at a ply below MAX_PLY
C11_Call ==
  (stack # <<>> /\ Len(stack') = Len(stack) + 1) =>
    LET parent == stack'[Len(stack)]
        child == stack'[Len(stack')]
        m == parent.moves[parent.i + 1]
    IN /\ parent.depth >= -12
       /\ child.ply = parent.ply + 1
       /\ child.depth <= parent.depth
       /\ child.depth = parent.depth =>
            /\ is_promotion_move(m, PieceOf(parent.board, m))
            /\ Count(m) = 1
            /\ parent.ply < MAX_PLY

\* C11 as written: a node with depth < -12 returns the static evaluation
\* without recursing
C11_FloorReturnsEvaluation ==
  [][C11_FloorEntry =>
       stack' = Callers /\ ret' = <<evaluate(Top.board, Top.player)>>]_vars

C11_FloorStep ==
  C11_FloorEntry =>
    /\ stack' = Callers
    /\ ret' = IF Len(generate_moves(Top.board, Top.player)) = 0
              THEN <<-MATE + Top.ply>>
              ELSE <<evaluate(Top.board, Top.player)>>

\* C11: every alpha_beta call terminates while stop_search stays clear: on the
\* recursion path depth never goes below -13; a node with depth < -12 returns
\* without recursing, the static evaluation or, with no legal move, -MATE + ply;
\* depth fails to decrease from parent to child only across a single-step
\* promotion move, of which a path has no more than the board has men
C11_AlphaBetaTerminates ==
  /\ []C11_DepthFloor
  /\ [][C11_FloorStep /\ C11_Call]_vars
  /\ <>(stack = <<>> /\ ret # <<>> /\ ~stop_search)

\* a node of depth -13 is on a path that crossed a promotion without losing depth
C11_Witness ==
  /\ Len(stack) >= 3
  /\ Top.depth = -13
  /\ LevelLinks # {}
  /\ ~stop_search

\* ------------------------------------------------------------------ C12
\* a step that is a tt_save call, a its arguments
C12_Save == hist' # hist /\ "saved" \in DOMAIN hist'

\* what the claim says of the call: the slot key mod TT_SIZE takes the five
\* arguments if its stored key differs from key or depth >= its stored depth,
\* and the table is left as it was otherwise; no other slot changes; and the
\* depth of a slot that keeps its key does not decrease
C12_Policy ==
  LET a == hist'.saved
      idx == a.key[3] % TT_SIZE
      old == TTEntryAt(transposition_table, idx)
      new == TTEntryAt(transposition_table', idx)
      replace == old.key # a.key \/ a.depth >= old.depth
  IN /\ replace => new = [key |-> a.key, score |-> a.score, depth |-> a.depth,
                          flag |-> a.flag, best_move |-> a.best_move]
     /\ ~replace => new = old
     /\ \A x \in (DOMAIN transposition_table \cup DOMAIN transposition_table') \ {idx} :
          TTEntryAt(transposition_table', x) = TTEntryAt(transposition_table, x)
     /\ new.key = old.key => new.depth >= old.depth

\* C12: tt_save replaces the slot at key mod TT_SIZE if and only if the stored
\* key differs from key or depth >= the stored depth, and leaves it unchanged
\* otherwise; the depth stored under a key never decreases while the slot
\* keeps that key
C12_ReplacementPolicy == [][C12_Save => C12_Policy]_vars

\* a save of lesser depth has just been turned away by the slot, one that two
\* keys share, which holds its key
C12_Witness ==
  /\ "saved" \in DOMAIN hist
  /\ hist.saved.key = <<1, 0, 5>>
  /\ TTEntryAt(transposition_table, 5).key = hist.saved.key
  /\ TTEntryAt(transposition_table, 5).depth > hist.saved.depth
  /\ TTEntryAt(transposition_table, 5).flag # hist.saved.flag

\* ---------------------------------------------------------------- C13
\* the next statement of the innermost alpha_beta call is the pick_move of
\* line 517, and it reads killer_moves[ply]
KillerReadDue ==
  /\ stack # <<>> /\ ret = <<>> /\ Top.pc = "loop"
  /\ pick_reads_killers(Top.moves, Top.i + 1, Top.tt_move)

\* the innermost alpha_beta call has its move's score and is about to write
\* killer_moves[ply] at lines 554-555: a beta cutoff by a quiet single-step move
KillerWriteDue ==
  /\ stack # <<>> /\ ret # <<>> /\ Top.pc \in {"first", "null", "full"}
  /\ ~(Top.pc = "null" /\ -ret[1] > Top.alpha /\ -ret[1] < Top.beta)
  /\ ~stop_search
  /\ after_score(Top, -ret[1]).killer

\* C13: during a get_best_move call, whatever max_depth was passed, every ply
\* with which alpha_beta reads the killer table (pick_move, score_move_ordering)
\* or writes it (beta cutoff) is one of 0..MAX_PLY-1
C13_KillerPlyInRange ==
  /\ KillerReadDue => Top.ply \in 0..(MAX_PLY - 1)
  /\ KillerWriteDue => Top.ply \in 0..(MAX_PLY - 1)

====
